---------------------------- MODULE Spec2Model ----------------------------
(***************************************************************************)
(* Model of the rcrawler crawl engine (website-crawler/src/crawler):       *)
(* the orchestrator CrawlEngine::crawl, its worker tasks running           *)
(* CrawlEngine::process_job, the termination monitor task, and the         *)
(* collaborators process_job calls (UrlFilter, RobotsChecker,              *)
(* SitemapParser).  Workers are tokio tasks on the multi-threaded runtime  *)
(* (#[tokio::main]), so every access to shared state (atomics, DashMap,    *)
(* mutex-guarded stats/results, the mpsc channel) is one atomic step and   *)
(* steps of different tasks interleave freely.                             *)
(***************************************************************************)
EXTENDS Integers, Sequences, FiniteSets, TLC

(***************************************************************************)
(* Bounds of the model.                                                    *)
(***************************************************************************)
MaxWorkers == 2       \* config.max_workers ranges over 0..MaxWorkers
MaxDepth == 2         \* config.max_depth ranges over 0..MaxDepth
QueueCap == 2         \* capacity of the job channel (mpsc::channel(10000)), scaled down
MaxSitemapUrls == 3   \* config.max_sitemap_urls ranges over 1..MaxSitemapUrls
SitemapFuel == 3      \* nesting depth of sitemap indexes that is followed

None == "None"       \* Option::None of a string
NoDomain == <<>>     \* Option::None of a host

(***************************************************************************)
(* The web the crawler runs against.  A URL is a string; its host is a     *)
(* sequence of DNS labels (so that "ends with .domain" is a suffix test    *)
(* on labels) or an IP address, for which Url::domain() is None.           *)
(***************************************************************************)
S == "http://h/"
A == "http://h/a"
B == "http://h/b"
J == "http://h/pic.jpg"
P == "http://h/private/x"
X == "http://other/x"
I == "http://10.0.0.1/"

URLs == {S, A, B, J, P, X, I}

HostH == <<"h">>
HostOther == <<"other">>
Hosts == {HostH, HostOther}

\* url::Url::domain(): the host when it is a domain name, None for an IP host
Domain(u) == IF u = I THEN NoDomain ELSE IF u = X THEN HostOther ELSE HostH

\* str::ends_with on the dotted form of two label sequences:
\* d ends with "." + a  iff  a is a proper suffix of d, label by label
IsSuffix(a, d) ==
    /\ Len(a) < Len(d)
    /\ \A k \in 1..Len(a) : d[Len(d) - Len(a) + k] = a[k]

\* engine.rs:271: the host is the allowed domain or one of its sub-domains
InScope(d, allowed) == d = allowed \/ IsSuffix(allowed, d)

Sites == {"cycle", "ext", "wide", "selfindex"}

\* HtmlParser::parse_links of the page a site serves at u: every <a href>,
\* resolved, in document order, duplicates kept
Links(site, u) ==
    CASE site = "cycle" ->
            (CASE u = S -> <<A, A>>
               [] u = A -> <<S, B>>
               [] u = B -> <<A>>
               [] OTHER -> <<>>)
      [] site = "ext" ->
            (CASE u = S -> <<X, J, P, I>>
               [] u = X -> <<S, P>>
               [] u = P -> <<A>>
               [] OTHER -> <<>>)
      [] site = "wide" ->
            (CASE u = S -> <<A, B, A, B>>
               [] u = A -> <<B>>
               [] OTHER -> <<>>)
      [] site = "selfindex" ->
            (CASE u = S -> <<A>>
               [] OTHER -> <<>>)

\* the robots.txt a host serves, as the set of URLs it disallows for the
\* crawler's user agent ("User-agent: *  Disallow: /private")
RobotsBody(host) == IF host = HostH THEN {P} ELSE {}

\* robotstxt::DefaultMatcher::one_agent_allowed_by_robots
one_agent_allowed_by_robots(body, u) == u \notin body

(***************************************************************************)
(* UrlFilter (utils/filters.rs).  A pattern is a regex source string; the  *)
(* tables say which sources compile and which URLs each one matches.       *)
(***************************************************************************)
ReJpg == "\\.jpg$"
ReHostH == "^http://h/"
ReBroken == "(unclosed"

\* Regex::new(p).ok()
ReCompiles(p) == p # ReBroken

\* Regex::is_match
ReMatch(p, u) ==
    CASE p = ReJpg -> u = J
      [] p = ReHostH -> u \in {S, A, B, J, P}
      [] OTHER -> FALSE

\* UrlFilterNew that keeps every pattern, compiled or not
UrlFilterNewKeepAll(exclude, include) ==
    [exclude_patterns |-> exclude, include_patterns |-> include]

\* UrlFilter::new: patterns that fail to compile are dropped
UrlFilterNew(exclude, include) ==
    [exclude_patterns |-> SelectSeq(exclude, ReCompiles),
     include_patterns |-> SelectSeq(include, ReCompiles)]

\* should_crawl with the exclude list tested first and the include list
\* consulted only for URLs an exclude pattern matches
should_crawlExcludeFirst(filter, u) ==
    IF \E k \in 1..Len(filter.exclude_patterns) : ReMatch(filter.exclude_patterns[k], u)
    THEN /\ filter.include_patterns # <<>>
         /\ \E k \in 1..Len(filter.include_patterns) : ReMatch(filter.include_patterns[k], u)
    ELSE TRUE

\* UrlFilter::should_crawl
should_crawl(filter, u) ==
    IF /\ filter.include_patterns # <<>>
       /\ ~ \E k \in 1..Len(filter.include_patterns) : ReMatch(filter.include_patterns[k], u)
    THEN FALSE
    ELSE IF \E k \in 1..Len(filter.exclude_patterns) : ReMatch(filter.exclude_patterns[k], u)
    THEN FALSE
    ELSE TRUE


(***************************************************************************)
(* SitemapParser (parser/sitemap.rs).  A sitemap document is what the      *)
(* site serves under a name: a transport error, a non-success status, a    *)
(* sitemap index (loc entries naming documents), a urlset (loc entries     *)
(* naming pages) or a body that parses as neither.                         *)
(***************************************************************************)
SubSitemapLimit == 10

SitemapCandidates == <<"/sitemap.xml", "/sitemap_index.xml", "/wp-sitemap.xml">>

SitemapDoc(site, name) ==
    CASE site = "cycle" /\ name = "/sitemap.xml" -> [kind |-> "urlset", locs |-> <<A, B, A>>]
      [] site = "ext" /\ name = "/sitemap.xml" -> [kind |-> "status", locs |-> <<>>]
      [] site = "ext" /\ name = "/sitemap_index.xml" -> [kind |-> "garbage", locs |-> <<>>]
      [] site = "wide" /\ name = "/sitemap.xml" -> [kind |-> "urlset", locs |-> <<>>]
      [] site = "wide" /\ name = "/sitemap_index.xml" ->
            [kind |-> "index", locs |-> <<"/sub1.xml", "/missing.xml", "/sub2.xml">>]
      [] site = "wide" /\ name = "/sub1.xml" -> [kind |-> "urlset", locs |-> <<A, B>>]
      [] site = "wide" /\ name = "/sub2.xml" -> [kind |-> "urlset", locs |-> <<B, P>>]
      [] site = "selfindex" /\ name = "/sitemap.xml" ->
            [kind |-> "index", locs |-> <<"/sitemap.xml">>]
      [] OTHER -> [kind |-> "error", locs |-> <<>>]

Take(s, n) == SubSeq(s, 1, IF Len(s) < n THEN Len(s) ELSE n)

Range(s) == {s[k] : k \in 1..Len(s)}

SmOk(urls) == [ok |-> TRUE, urls |-> urls, diverged |-> FALSE]
SmErr == [ok |-> FALSE, urls |-> <<>>, diverged |-> FALSE]
SmDiverged == [ok |-> FALSE, urls |-> <<>>, diverged |-> TRUE]

\* SitemapParser::parse_sitemap: the loc of every <url>, in document order;
\* the url list defaults to empty, so an index body yields no URL
parse_sitemap(doc) ==
    CASE doc.kind = "urlset" -> SmOk(doc.locs)
      [] doc.kind = "index" -> SmOk(<<>>)
      [] OTHER -> SmErr

RECURSIVE fetch_single_sitemap(_, _, _)
RECURSIVE SubSitemaps(_, _, _, _)

\* the loop of parse_sitemap_index over the first 10 entries: the URLs of
\* every sub-sitemap that could be fetched, concatenated
SubSitemaps(site, locs, k, fuel) ==
    IF k > Len(locs) THEN SmOk(<<>>)
    ELSE LET one == fetch_single_sitemap(site, locs[k], fuel)
             rest == SubSitemaps(site, locs, k + 1, fuel)
         IN  IF one.diverged \/ rest.diverged THEN SmDiverged
             ELSE SmOk((IF one.ok THEN one.urls ELSE <<>>) \o rest.urls)

\* SitemapParser::parse_sitemap_index
parse_sitemap_index(site, doc, fuel) ==
    CASE doc.kind = "index" -> SubSitemaps(site, Take(doc.locs, SubSitemapLimit), 1, fuel)
      [] doc.kind = "urlset" -> SmOk(<<>>)
      [] OTHER -> SmErr

\* SitemapParser::fetch_single_sitemap
fetch_single_sitemap(site, name, fuel) ==
    LET doc == SitemapDoc(site, name)
    IN  IF fuel = 0 THEN SmDiverged
        ELSE IF doc.kind = "error" THEN SmErr
        ELSE IF doc.kind = "status" THEN SmOk(<<>>)
        ELSE LET idx == parse_sitemap_index(site, doc, fuel - 1)
             IN  IF idx.diverged THEN SmDiverged
                 ELSE IF idx.ok /\ idx.urls # <<>> THEN idx
                 ELSE parse_sitemap(doc)

RECURSIVE FirstSitemap(_, _)
\* the candidate loop of fetch_sitemap_urls: the URLs of the first candidate
\* that yields any
FirstSitemap(site, k) ==
    IF k > Len(SitemapCandidates) THEN <<>>
    ELSE LET r == fetch_single_sitemap(site, SitemapCandidates[k], SitemapFuel)
         IN  IF r.ok /\ r.urls # <<>> THEN r.urls ELSE FirstSitemap(site, k + 1)

RECURSIVE SitemapDivergesFrom(_, _)
\* the candidate loop, from candidate k on, reaches a candidate whose fetch
\* never returns: fetch_single_sitemap has no guard against an index that
\* is listed, directly or not, in itself
SitemapDivergesFrom(site, k) ==
    IF k > Len(SitemapCandidates) THEN FALSE
    ELSE LET r == fetch_single_sitemap(site, SitemapCandidates[k], SitemapFuel)
         IN  IF r.diverged THEN TRUE
             ELSE IF r.ok /\ r.urls # <<>> THEN FALSE
             ELSE SitemapDivergesFrom(site, k + 1)

\* fetch_sitemap_urls(site) never returns
SitemapDiverges(site) == SitemapDivergesFrom(site, 1)

Min(a, b) == IF a < b THEN a ELSE b

\* fetch_sitemap_urls without the deduplication and the truncation
fetch_sitemap_urlsUnlimited(site, max_urls) == {FirstSitemap(site, 1)}

\* collect::<HashSet<_>>().into_iter().take(max_urls).collect(): the set's
\* iteration order is arbitrary, so every duplicate-free arrangement of
\* every max_urls-subset is a possible value; no value at all when the call
\* never returns
fetch_sitemap_urls(site, max_urls) ==
    IF SitemapDiverges(site) THEN {}
    ELSE LET all == Range(FirstSitemap(site, 1))
             n == Min(max_urls, Cardinality(all))
         IN  {s \in [1..n -> all] : \A i, j \in 1..n : s[i] = s[j] => i = j}


(***************************************************************************)
(* State of one crawl (crawler/engine.rs).                                 *)
(***************************************************************************)
VARIABLES
    site,          \* the web being crawled (environment)
    config,        \* CrawlerConfig
    queue,         \* the mpsc channel: jobs sent and not yet received
    rx_lock,       \* holder of tokio::sync::Mutex<Receiver>, 0 when free
    visited,       \* CrawlEngine.visited (DashMap keys)
    results,       \* CrawlEngine.results
    stats,         \* CrawlEngine.stats
    active_jobs,   \* CrawlEngine.active_jobs
    shutdown,      \* CrawlEngine.shutdown
    robots_cache,  \* RobotsChecker.cache: host -> "absent" | None | body
    main_pc,       \* position of crawl() itself
    to_seed,       \* seed jobs crawl() has still to send
    wpc,           \* position of every worker task
    wjob,          \* the job a worker is processing
    wi,            \* index of the link a worker is at in result.links
    mon_pc,        \* position of the termination monitor task
    enqueued,      \* history: URLs ever sent on the channel
    gate,          \* history: per URL, jobs that went past the visited check
    gets,          \* history: per URL, HTTP GETs issued by crawl_page
    wsent,         \* history: URLs a worker sent on the channel
    robots_log,    \* history: per URL, the values is_allowed returned
    robots_failed, \* history: hosts whose robots.txt fetch gave no body
    rx_closed,     \* the Receiver of the channel has been dropped
    deq,           \* history: the jobs a single worker received, in order
    late_recv,     \* history: per worker, jobs received with shutdown set
    fl_args,       \* UrlFilter unit: the pattern lists given to UrlFilter::new
    fl_filter,     \* UrlFilter unit: the UrlFilter constructed
    fl_ret,        \* UrlFilter unit: the last should_crawl call and its value
    ck_file,       \* checkpoint unit: <output_dir>/checkpoint.json on disk
    ck_mgr,        \* checkpoint unit: the CheckpointManager
    ck_now,        \* checkpoint unit: the wall clock Utc::now(), in seconds
    ck_ret,        \* checkpoint unit: the last call, its inputs and its value
    ck_saved,      \* checkpoint unit, history: the Checkpoint last saved
    rl_rate,       \* rate limiter unit: config.rate_limit, in 1/100 req/s
    rl,            \* rate limiter unit: the RateLimiter (governor state)
    rl_now,        \* rate limiter unit: the monotonic clock, in 10 ms
    rl_done        \* rate limiter unit, history: when each wait() returned

vars == <<site, config, queue, rx_lock, visited, results, stats, active_jobs,
          shutdown, robots_cache, main_pc, to_seed, wpc, wjob, wi, mon_pc,
          enqueued, gate, gets, wsent, robots_log, robots_failed,
          rx_closed, deq, late_recv,
          fl_args, fl_filter, fl_ret, ck_file, ck_mgr, ck_now, ck_ret, ck_saved,
          rl_rate, rl, rl_now, rl_done>>

\* the state of the units that are exercised on their own
filter_vars == <<fl_args, fl_filter, fl_ret>>
ckpt_vars == <<ck_file, ck_mgr, ck_now, ck_ret, ck_saved>>
rate_vars == <<rl_rate, rl, rl_now, rl_done>>
units == <<filter_vars, ckpt_vars, rate_vars>>

\* the state of the crawl engine
engine_vars == <<site, config, queue, rx_lock, visited, results, stats, active_jobs,
                 shutdown, robots_cache, main_pc, to_seed, wpc, wjob, wi, mon_pc,
                 enqueued, gate, gets, wsent, robots_log, robots_failed,
                 rx_closed, deq, late_recv>>

\* the history variables only the link loop of process_job writes
hist == <<wsent, robots_log, robots_failed>>

\* the receiving end of the channel: only rx.recv() writes its history
recv_vars == <<rx_closed, deq, late_recv>>

WorkerIds == 1..MaxWorkers
Workers == 1..config.max_workers

NoJob == [url |-> None, depth |-> 0]

\* entries of RobotsChecker.cache: no entry, Some(None), Some(Some(body))
CacheAbsent == [tag |-> "absent", body |-> {}]
CacheNone == [tag |-> "none", body |-> {}]
CacheSome(body) == [tag |-> "some", body |-> body]

CrawlJob(u, d) == [url |-> u, depth |-> d]

\* CrawlStats::new
CrawlStatsNew ==
    [pages_found |-> 0, pages_crawled |-> 0, external_links |-> 0,
     excluded_links |-> 0, errors |-> 0]

\* CrawlerConfig as main.rs / build_config can produce it.  max_sitemap_urls
\* is read only by the sitemap stage (engine.rs:82), so it is varied only
\* in the configurations that run that stage.
Configs ==
    {c \in [base_url : {S},
            allowed_domain : {NoDomain, HostH},
            max_depth : 0..MaxDepth,
            max_workers : 0..MaxWorkers,
            use_sitemap : BOOLEAN,
            max_sitemap_urls : 1..MaxSitemapUrls,
            respect_robots_txt : BOOLEAN,
            exclude_patterns : {<<ReJpg>>},
            include_patterns : {<<>>}] :
        (c.use_sitemap /\ c.allowed_domain # NoDomain) \/ c.max_sitemap_urls = 1}

\* Option<T>: None, Some(v)
NoneOpt == [some |-> FALSE, val |-> 0]
SomeOpt(v) == [some |-> TRUE, val |-> v]

\* no UrlFilter constructed, no should_crawl call made
NoFilter == [built |-> FALSE, exclude_patterns |-> <<>>, include_patterns |-> <<>>]
NoFilterCall == [called |-> FALSE, url |-> None, value |-> FALSE]

\* the units at rest: nothing constructed, nothing called
FilterIdle ==
    /\ fl_args = [exclude |-> <<>>, include |-> <<>>]
    /\ fl_filter = NoFilter
    /\ fl_ret = NoFilterCall

CkptIdle ==
    /\ ck_file = [kind |-> "missing"]
    /\ ck_mgr = [built |-> FALSE]
    /\ ck_now = 0
    /\ ck_ret = [op |-> "none"]
    /\ ck_saved = [some |-> FALSE]

RateIdle ==
    /\ rl_rate = 0
    /\ rl = [state |-> "unbuilt"]
    /\ rl_now = 0
    /\ rl_done = <<>>

\* the engine as CrawlEngine::new leaves it
EngineStart ==
    /\ queue = <<>>
    /\ rx_lock = 0
    /\ visited = {}
    /\ results = <<>>
    /\ stats = CrawlStatsNew
    /\ active_jobs = 0
    /\ shutdown = FALSE
    /\ robots_cache = [h \in Hosts |-> CacheAbsent]
    /\ main_pc = "seed"
    /\ to_seed = <<>>
    /\ wpc = [w \in WorkerIds |-> "unspawned"]
    /\ wjob = [w \in WorkerIds |-> NoJob]
    /\ wi = [w \in WorkerIds |-> 0]
    /\ mon_pc = "unspawned"
    /\ enqueued = {}
    /\ gate = [u \in URLs |-> 0]
    /\ gets = [u \in URLs |-> 0]
    /\ wsent = {}
    /\ robots_log = [u \in URLs |-> {}]
    /\ robots_failed = {}
    /\ rx_closed = FALSE
    /\ deq = <<>>
    /\ late_recv = [w \in WorkerIds |-> 0]

\* CrawlEngine::new followed by the entry of crawl()
Init ==
    /\ site \in Sites
    /\ config \in Configs
    /\ EngineStart
    /\ FilterIdle /\ CkptIdle /\ RateIdle

\* no crawl running: the engine variables of a unit run
NoEngine ==
    /\ site = "cycle"
    /\ config = [base_url |-> S, allowed_domain |-> NoDomain, max_depth |-> 0,
                 max_workers |-> 0, use_sitemap |-> FALSE, max_sitemap_urls |-> 1,
                 respect_robots_txt |-> FALSE, exclude_patterns |-> <<ReJpg>>,
                 include_patterns |-> <<>>]
    /\ EngineStart

url_filter == UrlFilterNew(config.exclude_patterns, config.include_patterns)

(***************************************************************************)
(* crawl(): seeding (engine.rs:78-131).                                    *)
(***************************************************************************)
\* the jobs the seeding stage sends: sitemap URLs at depth 1 when the
\* sitemap is enabled, a domain is set and the sitemap yields URLs; the
\* base URL at depth 0 in every other branch.  A sitemap fetch that never
\* returns (SitemapDiverges) gives no job list: the stage does not proceed
SeedJobs ==
    IF config.use_sitemap /\ config.allowed_domain # NoDomain
    THEN LET urlss == fetch_sitemap_urls(site, config.max_sitemap_urls)
         IN  IF urlss = {} THEN {}
             ELSE IF \E s \in urlss : s # <<>>
             THEN {[k \in 1..Len(s) |-> CrawlJob(s[k], 1)] : s \in urlss}
             ELSE {<<CrawlJob(config.base_url, 0)>>}
    ELSE {<<CrawlJob(config.base_url, 0)>>}

Seed ==
    /\ main_pc = "seed"
    /\ to_seed' \in SeedJobs
    /\ main_pc' = "seed_inc"
    /\ UNCHANGED <<hist, units, recv_vars, site, config, queue, rx_lock, visited, results, stats, active_jobs,
                   shutdown, robots_cache, wpc, wjob, wi, mon_pc, enqueued, gate, gets>>

\* engine.rs:88-89 (and 100, 109, 118, 126): visited check, then fetch_add
SeedInc ==
    /\ main_pc = "seed_inc"
    /\ IF to_seed = <<>>
       THEN /\ main_pc' = "spawn"
            /\ UNCHANGED <<active_jobs, to_seed>>
       ELSE IF Head(to_seed).url \in visited
       THEN /\ to_seed' = Tail(to_seed)
            /\ UNCHANGED <<active_jobs, main_pc>>
       ELSE /\ active_jobs' = active_jobs + 1
            /\ main_pc' = "seed_send"
            /\ UNCHANGED to_seed
    /\ UNCHANGED <<hist, units, recv_vars, site, config, queue, rx_lock, visited, results, stats,
                   shutdown, robots_cache, wpc, wjob, wi, mon_pc, enqueued, gate, gets>>

\* engine.rs:90-93: tx.send(job).await, which waits while the channel is full
SeedSend ==
    /\ main_pc = "seed_send"
    /\ Len(queue) < QueueCap
    /\ queue' = Append(queue, Head(to_seed))
    /\ enqueued' = enqueued \cup {Head(to_seed).url}
    /\ to_seed' = Tail(to_seed)
    /\ main_pc' = "seed_inc"
    /\ UNCHANGED <<hist, units, recv_vars, site, config, rx_lock, visited, results, stats, active_jobs,
                   shutdown, robots_cache, wpc, wjob, wi, mon_pc, gate, gets>>

\* engine.rs:133-225: spawn the workers and the monitor task, drop tx.  The
\* progress task (engine.rs:172-196) only reads and prints, and is left out.
Spawn ==
    /\ main_pc = "spawn"
    /\ wpc' = [w \in WorkerIds |-> IF w \in Workers THEN "loop" ELSE "unspawned"]
    /\ mon_pc' = "tick"
    /\ main_pc' = "join"
    /\ UNCHANGED <<hist, units, recv_vars, site, config, queue, rx_lock, visited, results, stats, active_jobs,
                   shutdown, robots_cache, to_seed, wjob, wi, enqueued, gate, gets>>

\* engine.rs:227-246: every handle awaited, stats finalized, Ok returned
Join ==
    /\ main_pc = "join"
    /\ \A w \in Workers : wpc[w] = "done"
    /\ main_pc' = "returned"
    /\ UNCHANGED <<hist, units, recv_vars, site, config, queue, rx_lock, visited, results, stats, active_jobs,
                   shutdown, robots_cache, to_seed, wpc, wjob, wi, mon_pc, enqueued,
                   gate, gets>>


(***************************************************************************)
(* Worker task (engine.rs:140-167) and process_job (engine.rs:249-332).    *)
(***************************************************************************)
\* result.links of the page the worker fetched
JobLinks(w) == Links(site, wjob[w].url)

\* the status the site answers with; the body is parsed whatever it is
StatusCode(s, u) == IF s = "wide" /\ u = B THEN 404 ELSE 200

PageResult(job) ==
    [url |-> job.url, depth |-> job.depth, status_code |-> StatusCode(site, job.url)]

\* the for loop of engine.rs:285 moves on to the next link, or ends
NextLink(w) ==
    /\ wi' = [wi EXCEPT ![w] = @ + 1]
    /\ wpc' = [wpc EXCEPT ![w] = IF wi[w] + 1 > Len(JobLinks(w)) THEN "push" ELSE "links"]

\* engine.rs:143: the shutdown flag is read at the top of the loop
W_CheckShutdown(w) ==
    /\ wpc[w] = "loop"
    /\ wpc' = [wpc EXCEPT ![w] = IF shutdown THEN "done" ELSE "lock"]
    /\ UNCHANGED <<hist, units, recv_vars, site, config, queue, rx_lock, visited, results, stats, active_jobs,
                   shutdown, robots_cache, main_pc, to_seed, wjob, wi, mon_pc,
                   enqueued, gate, gets>>

\* engine.rs:148: rx_clone.lock().await
W_Lock(w) ==
    /\ wpc[w] = "lock"
    /\ rx_lock = 0
    /\ rx_lock' = w
    /\ wpc' = [wpc EXCEPT ![w] = "recv"]
    /\ UNCHANGED <<hist, units, recv_vars, site, config, queue, visited, results, stats, active_jobs,
                   shutdown, robots_cache, main_pc, to_seed, wjob, wi, mon_pc,
                   enqueued, gate, gets>>

\* engine.rs:151: rx.recv() yields a job; the guard is dropped
W_Recv(w) ==
    /\ wpc[w] = "recv"
    /\ queue # <<>>
    /\ wjob' = [wjob EXCEPT ![w] = Head(queue)]
    /\ queue' = Tail(queue)
    /\ rx_lock' = 0
    /\ wpc' = [wpc EXCEPT ![w] = "dec"]
    /\ deq' = IF config.max_workers = 1 THEN Append(deq, Head(queue)) ELSE deq
    /\ late_recv' = [late_recv EXCEPT ![w] = IF shutdown THEN @ + 1 ELSE @]
    /\ UNCHANGED <<hist, units, rx_closed, site, config, visited, results, stats, active_jobs,
                   shutdown, robots_cache, main_pc, to_seed, wi, mon_pc,
                   enqueued, gate, gets>>

\* engine.rs:152-154: no job within 100 ms; continue.  The sleep branch of
\* select! completes only after recv() has stayed pending for 100 ms, that
\* is, with the channel empty.
W_RecvTimeout(w) ==
    /\ wpc[w] = "recv"
    /\ queue = <<>>
    /\ rx_lock' = 0
    /\ wpc' = [wpc EXCEPT ![w] = "loop"]
    /\ UNCHANGED <<hist, units, recv_vars, site, config, queue, visited, results, stats, active_jobs,
                   shutdown, robots_cache, main_pc, to_seed, wjob, wi, mon_pc,
                   enqueued, gate, gets>>

\* engine.rs:251: active_jobs.fetch_sub(1) on entry to process_job
W_Dec(w) ==
    /\ wpc[w] = "dec"
    /\ active_jobs' = active_jobs - 1
    /\ wpc' = [wpc EXCEPT ![w] = "check"]
    /\ UNCHANGED <<hist, units, recv_vars, site, config, queue, rx_lock, visited, results, stats,
                   shutdown, robots_cache, main_pc, to_seed, wjob, wi, mon_pc,
                   enqueued, gate, gets>>

\* engine.rs:254-256: visited.contains_key(&job.url)
W_CheckVisited(w) ==
    /\ wpc[w] = "check"
    /\ IF wjob[w].url \in visited
       THEN /\ wpc' = [wpc EXCEPT ![w] = "loop"]
            /\ wjob' = [wjob EXCEPT ![w] = NoJob]
            /\ UNCHANGED gate
       ELSE /\ wpc' = [wpc EXCEPT ![w] = "insert"]
            /\ gate' = [gate EXCEPT ![wjob[w].url] = @ + 1]
            /\ UNCHANGED wjob
    /\ UNCHANGED <<hist, units, recv_vars, site, config, queue, rx_lock, visited, results, stats, active_jobs,
                   shutdown, robots_cache, main_pc, to_seed, wi, mon_pc,
                   enqueued, gets>>

\* W_Insert without the visited.insert: the job goes on unmarked
W_InsertOmitted(w) ==
    /\ wpc[w] = "insert"
    /\ wpc' = [wpc EXCEPT ![w] = "found"]
    /\ UNCHANGED <<hist, units, recv_vars, site, config, queue, rx_lock, visited, results, stats, active_jobs,
                   shutdown, robots_cache, main_pc, to_seed, wjob, wi, mon_pc,
                   enqueued, gate, gets>>

\* engine.rs:259: visited.insert(job.url)
W_Insert(w) ==
    /\ wpc[w] = "insert"
    /\ visited' = visited \cup {wjob[w].url}
    /\ wpc' = [wpc EXCEPT ![w] = "found"]
    /\ UNCHANGED <<hist, units, recv_vars, site, config, queue, rx_lock, results, stats, active_jobs,
                   shutdown, robots_cache, main_pc, to_seed, wjob, wi, mon_pc,
                   enqueued, gate, gets>>

\* W_Found without the increment of pages_found
W_FoundOmitted(w) ==
    /\ wpc[w] = "found"
    /\ wpc' = [wpc EXCEPT ![w] = "domain"]
    /\ UNCHANGED <<hist, units, recv_vars, site, config, queue, rx_lock, visited, results, stats, active_jobs,
                   shutdown, robots_cache, main_pc, to_seed, wjob, wi, mon_pc,
                   enqueued, gate, gets>>

\* engine.rs:262-265: stats.pages_found += 1
W_Found(w) ==
    /\ wpc[w] = "found"
    /\ stats' = [stats EXCEPT !.pages_found = @ + 1]
    /\ wpc' = [wpc EXCEPT ![w] = "domain"]
    /\ UNCHANGED <<hist, units, recv_vars, site, config, queue, rx_lock, visited, results, active_jobs,
                   shutdown, robots_cache, main_pc, to_seed, wjob, wi, mon_pc,
                   enqueued, gate, gets>>

\* W_Domain that drops an out-of-scope URL without counting it
W_DomainUncounted(w) ==
    /\ wpc[w] = "domain"
    /\ IF /\ config.allowed_domain # NoDomain
          /\ Domain(wjob[w].url) # NoDomain
          /\ ~InScope(Domain(wjob[w].url), config.allowed_domain)
       THEN /\ wpc' = [wpc EXCEPT ![w] = "loop"]
            /\ wjob' = [wjob EXCEPT ![w] = NoJob]
       ELSE /\ wpc' = [wpc EXCEPT ![w] = "crawl_page"]
            /\ UNCHANGED wjob
    /\ UNCHANGED <<hist, units, recv_vars, site, config, queue, rx_lock, visited, results,
                   stats, active_jobs, shutdown, robots_cache, main_pc, to_seed, wi, mon_pc,
                   enqueued, gate, gets>>

\* engine.rs:268-278: a URL outside the allowed domain is counted and dropped
W_Domain(w) ==
    /\ wpc[w] = "domain"
    /\ IF /\ config.allowed_domain # NoDomain
          /\ Domain(wjob[w].url) # NoDomain
          /\ ~InScope(Domain(wjob[w].url), config.allowed_domain)
       THEN /\ stats' = [stats EXCEPT !.external_links = @ + 1]
            /\ wpc' = [wpc EXCEPT ![w] = "loop"]
            /\ wjob' = [wjob EXCEPT ![w] = NoJob]
       ELSE /\ wpc' = [wpc EXCEPT ![w] = "crawl_page"]
            /\ UNCHANGED <<stats, wjob>>
    /\ UNCHANGED <<hist, units, recv_vars, site, config, queue, rx_lock, visited, results, active_jobs,
                   shutdown, robots_cache, main_pc, to_seed, wi, mon_pc,
                   enqueued, gate, gets>>

\* engine.rs:281-284, 334-364: crawl_page returns Ok(result)
W_CrawlPageOk(w) ==
    /\ wpc[w] = "crawl_page"
    /\ gets' = [gets EXCEPT ![wjob[w].url] = @ + 1]
    /\ IF wjob[w].depth < config.max_depth /\ JobLinks(w) # <<>>
       THEN /\ wpc' = [wpc EXCEPT ![w] = "links"]
            /\ wi' = [wi EXCEPT ![w] = 1]
       ELSE /\ wpc' = [wpc EXCEPT ![w] = "push"]
            /\ UNCHANGED wi
    /\ UNCHANGED <<hist, units, recv_vars, site, config, queue, rx_lock, visited, results, stats, active_jobs,
                   shutdown, robots_cache, main_pc, to_seed, wjob, mon_pc,
                   enqueued, gate>>

\* W_CrawlPageErr that also records a PageResult for the failed URL
W_CrawlPageErrRecorded(w) ==
    /\ wpc[w] = "crawl_page"
    /\ gets' = [gets EXCEPT ![wjob[w].url] = @ + 1]
    /\ stats' = [stats EXCEPT !.errors = @ + 1]
    /\ results' = Append(results, PageResult(wjob[w]))
    /\ wpc' = [wpc EXCEPT ![w] = "loop"]
    /\ wjob' = [wjob EXCEPT ![w] = NoJob]
    /\ UNCHANGED <<hist, units, recv_vars, site, config, queue, rx_lock, visited, active_jobs,
                   shutdown, robots_cache, main_pc, to_seed, wi, mon_pc,
                   enqueued, gate>>

\* engine.rs:324-328: crawl_page returns Err (transport error); errors += 1
W_CrawlPageErr(w) ==
    /\ wpc[w] = "crawl_page"
    /\ gets' = [gets EXCEPT ![wjob[w].url] = @ + 1]
    /\ stats' = [stats EXCEPT !.errors = @ + 1]
    /\ wpc' = [wpc EXCEPT ![w] = "loop"]
    /\ wjob' = [wjob EXCEPT ![w] = NoJob]
    /\ UNCHANGED <<hist, units, recv_vars, site, config, queue, rx_lock, visited, results, active_jobs,
                   shutdown, robots_cache, main_pc, to_seed, wi, mon_pc,
                   enqueued, gate>>

\* W_Link without the url_filter.should_crawl check
W_LinkUnfiltered(w) ==
    /\ wpc[w] = "links"
    /\ LET link == JobLinks(w)[wi[w]]
       IN  IF link \in visited
           THEN NextLink(w)
           ELSE /\ wpc' = [wpc EXCEPT ![w] =
                              IF config.respect_robots_txt THEN "robots" ELSE "inc"]
                /\ UNCHANGED wi
    /\ UNCHANGED <<hist, units, recv_vars, site, config, queue, rx_lock, visited, results, stats, active_jobs,
                   shutdown, robots_cache, main_pc, to_seed, wjob, mon_pc,
                   enqueued, gate, gets>>

\* engine.rs:285-301: the admission checks on result.links[wi]
W_Link(w) ==
    /\ wpc[w] = "links"
    /\ LET link == JobLinks(w)[wi[w]]
       IN  IF link \in visited \/ ~should_crawl(url_filter, link)
           THEN NextLink(w)
           ELSE /\ wpc' = [wpc EXCEPT ![w] =
                              IF config.respect_robots_txt THEN "robots" ELSE "inc"]
                /\ UNCHANGED wi
    /\ UNCHANGED <<hist, units, recv_vars, site, config, queue, rx_lock, visited, results, stats, active_jobs,
                   shutdown, robots_cache, main_pc, to_seed, wjob, mon_pc,
                   enqueued, gate, gets>>

\* robots.rs:33-52: is_allowed up to the cache lookup
W_RobotsCache(w) ==
    /\ wpc[w] = "robots"
    /\ LET link == JobLinks(w)[wi[w]]
           entry == IF Domain(link) = NoDomain THEN CacheNone
                    ELSE robots_cache[Domain(link)]
       IN  IF Domain(link) = NoDomain \/ entry.tag = "none"
           THEN /\ wpc' = [wpc EXCEPT ![w] = "inc"]
                /\ robots_log' = [robots_log EXCEPT ![link] = @ \cup {TRUE}]
                /\ UNCHANGED wi
           ELSE IF entry.tag = "some"
           THEN LET allowed == one_agent_allowed_by_robots(entry.body, link)
                IN  /\ robots_log' = [robots_log EXCEPT ![link] = @ \cup {allowed}]
                    /\ IF allowed
                       THEN /\ wpc' = [wpc EXCEPT ![w] = "inc"]
                            /\ UNCHANGED wi
                       ELSE NextLink(w)
           ELSE /\ wpc' = [wpc EXCEPT ![w] = "robots_fetch"]
                /\ UNCHANGED <<wi, robots_log>>
    /\ UNCHANGED <<wsent, robots_failed, units, recv_vars, site, config, queue, rx_lock, visited, results, stats, active_jobs,
                   shutdown, robots_cache, main_pc, to_seed, wjob, mon_pc,
                   enqueued, gate, gets>>

\* robots.rs:57-63: fetch_robots returned the body; it is matched and cached
W_RobotsFetchOk(w) ==
    /\ wpc[w] = "robots_fetch"
    /\ LET link == JobLinks(w)[wi[w]]
           body == RobotsBody(Domain(link))
           allowed == one_agent_allowed_by_robots(body, link)
       IN  /\ robots_cache' = [robots_cache EXCEPT ![Domain(link)] = CacheSome(body)]
           /\ robots_log' = [robots_log EXCEPT ![link] = @ \cup {allowed}]
           /\ IF allowed
              THEN /\ wpc' = [wpc EXCEPT ![w] = "inc"]
                   /\ UNCHANGED wi
              ELSE NextLink(w)
    /\ UNCHANGED <<wsent, robots_failed, units, recv_vars, site, config, queue, rx_lock, visited, results, stats, active_jobs,
                   shutdown, main_pc, to_seed, wjob, mon_pc, enqueued, gate, gets>>

\* W_RobotsFetchNone that admits the URL without caching anything
W_RobotsFetchNoneUncached(w) ==
    /\ wpc[w] = "robots_fetch"
    /\ LET link == JobLinks(w)[wi[w]]
       IN  /\ robots_log' = [robots_log EXCEPT ![link] = @ \cup {TRUE}]
           /\ robots_failed' = robots_failed \cup {Domain(link)}
    /\ wpc' = [wpc EXCEPT ![w] = "inc"]
    /\ UNCHANGED <<wsent, units, recv_vars, site, config, queue, rx_lock, visited, results, stats,
                   active_jobs, shutdown, robots_cache, main_pc, to_seed, wjob, wi,
                   mon_pc, enqueued, gate, gets>>

\* robots.rs:64-73: non-success status or transport error; None is cached
W_RobotsFetchNone(w) ==
    /\ wpc[w] = "robots_fetch"
    /\ LET link == JobLinks(w)[wi[w]]
       IN  /\ robots_cache' = [robots_cache EXCEPT ![Domain(link)] = CacheNone]
           /\ robots_log' = [robots_log EXCEPT ![link] = @ \cup {TRUE}]
           /\ robots_failed' = robots_failed \cup {Domain(link)}
    /\ wpc' = [wpc EXCEPT ![w] = "inc"]
    /\ UNCHANGED <<wsent, units, recv_vars, site, config, queue, rx_lock, visited, results, stats, active_jobs,
                   shutdown, main_pc, to_seed, wjob, wi, mon_pc, enqueued, gate, gets>>

\* W_Inc without the fetch_add: the child is sent uncounted
W_IncOmitted(w) ==
    /\ wpc[w] = "inc"
    /\ wpc' = [wpc EXCEPT ![w] = "send"]
    /\ UNCHANGED <<hist, units, recv_vars, site, config, queue, rx_lock, visited, results,
                   stats, active_jobs, shutdown, robots_cache, main_pc, to_seed, wjob, wi,
                   mon_pc, enqueued, gate, gets>>

\* engine.rs:304: active_jobs.fetch_add(1) before the send
W_Inc(w) ==
    /\ wpc[w] = "inc"
    /\ active_jobs' = active_jobs + 1
    /\ wpc' = [wpc EXCEPT ![w] = "send"]
    /\ UNCHANGED <<hist, units, recv_vars, site, config, queue, rx_lock, visited, results, stats,
                   shutdown, robots_cache, main_pc, to_seed, wjob, wi, mon_pc,
                   enqueued, gate, gets>>

\* engine.rs:306-309: tx.send(child).await returns Ok: it waits while the
\* channel is full.  Within crawl() the receiver lives until crawl() returns
\* (every worker holds a clone of the Arc around it), so there the send
\* never fails.
W_Send(w) ==
    /\ wpc[w] = "send"
    /\ ~rx_closed
    /\ Len(queue) < QueueCap
    /\ LET link == JobLinks(w)[wi[w]]
       IN  /\ queue' = Append(queue, CrawlJob(link, wjob[w].depth + 1))
           /\ enqueued' = enqueued \cup {link}
           /\ wsent' = wsent \cup {link}
    /\ NextLink(w)
    /\ UNCHANGED <<robots_log, robots_failed, units, recv_vars, site, config, rx_lock, visited, results, stats, active_jobs,
                   shutdown, robots_cache, main_pc, to_seed, wjob, mon_pc, gate, gets>>

\* W_SendClosed without the fetch_sub that restores the counter
W_SendClosedNoRestore(w) ==
    /\ wpc[w] = "send"
    /\ rx_closed
    /\ wpc' = [wpc EXCEPT ![w] = "push"]
    /\ UNCHANGED <<hist, units, recv_vars, site, config, queue, rx_lock, visited, results,
                   stats, active_jobs, shutdown, robots_cache, main_pc, to_seed, wjob, wi,
                   mon_pc, enqueued, gate, gets>>

\* engine.rs:309-313: tx.send(child).await returns Err (the receiver is
\* gone): the counter is decremented back and the link loop is left
W_SendClosed(w) ==
    /\ wpc[w] = "send"
    /\ rx_closed
    /\ active_jobs' = active_jobs - 1
    /\ wpc' = [wpc EXCEPT ![w] = "push"]
    /\ UNCHANGED <<hist, units, recv_vars, site, config, queue, rx_lock, visited, results,
                   stats, shutdown, robots_cache, main_pc, to_seed, wjob, wi,
                   mon_pc, enqueued, gate, gets>>

\* W_Push that puts the result at the front of the list
W_PushFront(w) ==
    /\ wpc[w] = "push"
    /\ results' = <<PageResult(wjob[w])>> \o results
    /\ wpc' = [wpc EXCEPT ![w] = "crawled"]
    /\ UNCHANGED <<hist, units, recv_vars, site, config, queue, rx_lock, visited, stats,
                   active_jobs, shutdown, robots_cache, main_pc, to_seed, wjob, wi, mon_pc,
                   enqueued, gate, gets>>

\* engine.rs:318: results.lock().push(result)
W_Push(w) ==
    /\ wpc[w] = "push"
    /\ results' = Append(results, PageResult(wjob[w]))
    /\ wpc' = [wpc EXCEPT ![w] = "crawled"]
    /\ UNCHANGED <<hist, units, recv_vars, site, config, queue, rx_lock, visited, stats, active_jobs,
                   shutdown, robots_cache, main_pc, to_seed, wjob, wi, mon_pc,
                   enqueued, gate, gets>>

\* engine.rs:321-322: stats.pages_crawled += 1; process_job returns
W_Crawled(w) ==
    /\ wpc[w] = "crawled"
    /\ stats' = [stats EXCEPT !.pages_crawled = @ + 1]
    /\ wpc' = [wpc EXCEPT ![w] = "loop"]
    /\ wjob' = [wjob EXCEPT ![w] = NoJob]
    /\ wi' = [wi EXCEPT ![w] = 0]
    /\ UNCHANGED <<hist, units, recv_vars, site, config, queue, rx_lock, visited, results, active_jobs,
                   shutdown, robots_cache, main_pc, to_seed, mon_pc,
                   enqueued, gate, gets>>

(***************************************************************************)
(* Termination monitor task (engine.rs:198-222).  Time is not modelled:    *)
(* the 500 ms tick and the 2 s grace sleep are steps that may come at any  *)
(* point of the workers' progress, as a worker can stay at one await (an   *)
(* HTTP request runs up to config.timeout, 30 s by default) for longer     *)
(* than both.                                                              *)
(***************************************************************************)
\* engine.rs:204-208: a tick; active_jobs is sampled
M_Tick ==
    /\ mon_pc = "tick"
    /\ mon_pc' = IF active_jobs = 0 THEN "grace" ELSE "tick"
    /\ UNCHANGED <<hist, units, recv_vars, site, config, queue, rx_lock, visited, results, stats, active_jobs,
                   shutdown, robots_cache, main_pc, to_seed, wpc, wjob, wi,
                   enqueued, gate, gets>>

\* M_AfterGrace that sets shutdown without sampling active_jobs again
M_AfterGraceNoResample ==
    /\ mon_pc = "grace"
    /\ shutdown' = TRUE
    /\ mon_pc' = "done"
    /\ UNCHANGED <<hist, units, recv_vars, site, config, queue, rx_lock, visited, results,
                   stats, active_jobs, robots_cache, main_pc, to_seed, wpc, wjob, wi,
                   enqueued, gate, gets>>

\* engine.rs:210-219: the grace sleep is over; active_jobs is sampled again
M_AfterGrace ==
    /\ mon_pc = "grace"
    /\ IF active_jobs = 0
       THEN /\ shutdown' = TRUE
            /\ mon_pc' = "done"
       ELSE /\ mon_pc' = "tick"
            /\ UNCHANGED shutdown
    /\ UNCHANGED <<hist, units, recv_vars, site, config, queue, rx_lock, visited, results, stats, active_jobs,
                   robots_cache, main_pc, to_seed, wpc, wjob, wi,
                   enqueued, gate, gets>>

Worker(w) ==
    \/ W_CheckShutdown(w)
    \/ W_Lock(w)
    \/ W_Recv(w)
    \/ W_RecvTimeout(w)
    \/ W_Dec(w)
    \/ W_CheckVisited(w)
    \/ W_Insert(w)
    \/ W_Found(w)
    \/ W_Domain(w)
    \/ W_CrawlPageOk(w)
    \/ W_CrawlPageErr(w)
    \/ W_Link(w)
    \/ W_RobotsCache(w)
    \/ W_RobotsFetchOk(w)
    \/ W_RobotsFetchNone(w)
    \/ W_Inc(w)
    \/ W_Send(w)
    \/ W_Push(w)
    \/ W_Crawled(w)

Monitor == M_Tick \/ M_AfterGrace

Main == Seed \/ SeedInc \/ SeedSend \/ Spawn \/ Join

Next ==
    \/ Main
    \/ Monitor
    \/ \E w \in WorkerIds : Worker(w)

Spec == Init /\ [][Next]_vars


\* the tokio runtime runs every spawned task and crawl() itself: a task that
\* can take a step eventually takes one
FairSpec ==
    /\ Spec
    /\ WF_vars(Main)
    /\ WF_vars(Monitor)
    /\ \A w \in WorkerIds : WF_vars(Worker(w))


(***************************************************************************)
(* process_job on its own, called with a Sender whose Receiver has been    *)
(* dropped (engine.rs:249-332): the caller counts a job in active_jobs, as *)
(* the seeder does, and hands it to process_job; every tx.send fails.      *)
(***************************************************************************)
MaxCalls == 2         \* process_job calls made on one engine

\* the jobs handed to process_job
CallJobs == {CrawlJob(u, d) : u \in {S, X, P}, d \in 0..1}

ClosedInit ==
    /\ site \in Sites
    /\ config \in {c \in Configs : c.max_workers = 1 /\ ~c.use_sitemap}
    /\ queue = <<>>
    /\ rx_lock = 0
    /\ visited = {}
    /\ results = <<>>
    /\ stats = CrawlStatsNew
    /\ active_jobs = 0
    /\ shutdown = FALSE
    /\ robots_cache = [h \in Hosts |-> CacheAbsent]
    /\ main_pc = "process_job"
    /\ to_seed = <<>>
    /\ wpc = [w \in WorkerIds |-> IF w = 1 THEN "loop" ELSE "unspawned"]
    /\ wjob = [w \in WorkerIds |-> NoJob]
    /\ wi = [w \in WorkerIds |-> 0]
    /\ mon_pc = "unspawned"
    /\ enqueued = {}
    /\ gate = [u \in URLs |-> 0]
    /\ gets = [u \in URLs |-> 0]
    /\ wsent = {}
    /\ robots_log = [u \in URLs |-> {}]
    /\ robots_failed = {}
    /\ rx_closed = TRUE
    /\ deq = <<>>
    /\ late_recv = [w \in WorkerIds |-> 0]
    /\ FilterIdle /\ CkptIdle /\ RateIdle

\* the caller counts the job and calls process_job(job, &tx)
PJ_Call ==
    /\ main_pc = "process_job"
    /\ wpc[1] = "loop"
    /\ Len(deq) < MaxCalls
    /\ \E job \in CallJobs :
          /\ job.depth <= config.max_depth
          /\ wjob' = [wjob EXCEPT ![1] = job]
          /\ deq' = Append(deq, job)
    /\ active_jobs' = active_jobs + 1
    /\ wpc' = [wpc EXCEPT ![1] = "dec"]
    /\ UNCHANGED <<hist, units, rx_closed, late_recv, site, config, queue, rx_lock, visited,
                   results, stats, shutdown, robots_cache, main_pc, to_seed, wi, mon_pc,
                   enqueued, gate, gets>>

ClosedNext ==
    \/ PJ_Call
    \/ W_Dec(1)
    \/ W_CheckVisited(1)
    \/ W_Insert(1)
    \/ W_Found(1)
    \/ W_Domain(1)
    \/ W_CrawlPageOk(1)
    \/ W_CrawlPageErr(1)
    \/ W_Link(1)
    \/ W_RobotsCache(1)
    \/ W_RobotsFetchOk(1)
    \/ W_RobotsFetchNone(1)
    \/ W_Inc(1)
    \/ W_SendClosed(1)
    \/ W_Push(1)
    \/ W_Crawled(1)

ClosedSpec == ClosedInit /\ [][ClosedNext]_vars

(***************************************************************************)
(* UrlFilter on its own (utils/filters.rs): a filter is constructed from   *)
(* two pattern lists and should_crawl is called on URLs.                   *)
(***************************************************************************)
MaxPatterns == 2      \* pattern lists of up to MaxPatterns sources

Patterns == {ReJpg, ReHostH, ReBroken}

PatternLists == UNION {[1..n -> Patterns] : n \in 0..MaxPatterns}

FilterInit ==
    /\ NoEngine
    /\ fl_args \in [exclude : PatternLists, include : PatternLists]
    /\ fl_filter = NoFilter
    /\ fl_ret = NoFilterCall
    /\ CkptIdle /\ RateIdle

\* UrlFilter::new(&exclude, &include)
F_New ==
    /\ ~fl_filter.built
    /\ fl_filter' = [built |-> TRUE] @@ UrlFilterNew(fl_args.exclude, fl_args.include)
    /\ UNCHANGED <<engine_vars, ckpt_vars, rate_vars, fl_args, fl_ret>>

\* filter.should_crawl(url)
F_ShouldCrawl ==
    /\ fl_filter.built
    /\ \E u \in URLs :
          fl_ret' = [called |-> TRUE, url |-> u, value |-> should_crawl(fl_filter, u)]
    /\ UNCHANGED <<engine_vars, ckpt_vars, rate_vars, fl_args, fl_filter>>

FilterNext == F_New \/ F_ShouldCrawl

FilterSpec == FilterInit /\ [][FilterNext]_vars

(***************************************************************************)
(* Checkpoints on their own (crawler/checkpoint.rs): one output directory, *)
(* one CheckpointManager, calls of save, load, try_load and should_save in *)
(* any order.  Utc::now() is the wall clock: it advances, and it can be    *)
(* set back (clock adjustment).                                            *)
(***************************************************************************)
MaxClock == 2         \* Utc::now() ranges over 0..MaxClock seconds
MaxInterval == 2      \* save_interval_secs ranges over 0..MaxInterval

\* 2^64 scaled to the integers of the model checker: the modulus of `as u64`
U64Modulus == 1073741824

\* `x as u64` of an i64
AsU64(x) == IF x < 0 THEN U64Modulus + x ELSE x

\* the Checkpoint values that are saved: PageResult and CrawlStats are cut
\* down to a required field and their optional fields
CkPages == {[url |-> A, error |-> NoneOpt], [url |-> A, error |-> SomeOpt(1)]}
CkStats == {[pages_found |-> 1, end_time |-> NoneOpt, duration |-> NoneOpt],
            [pages_found |-> 1, end_time |-> SomeOpt(1), duration |-> SomeOpt(5)]}
CkVisited == {{A}, {A, B}}
CkHashes == {1, 2}
CkBaseUrls == {S, X}

\* the ways a HashSet can be iterated: its elements in any order, once each
Orders(set) ==
    {q \in [1..Cardinality(set) -> set] : \A i, j \in DOMAIN q : q[i] = q[j] => i = j}

\* Checkpoint::new
CheckpointNew(vs, rs, st, base_url, config_hash, now) ==
    [visited |-> vs, results |-> rs, stats |-> st, timestamp |-> now,
     base_url |-> base_url, config_hash |-> config_hash]

\* serde of an Option field with skip_serializing_if = "Option::is_none":
\* the key is written only for Some
SerOpt(o) == [present |-> o.some, value |-> IF o.some THEN o.val ELSE 0]

\* a missing key of an Option field deserializes to None
DeOpt(f) == IF f.present THEN SomeOpt(f.value) ELSE NoneOpt

\* Serialize that never writes PageResult.error
SerializeNoError(cp, order) ==
    [visited |-> order,
     results |-> [k \in 1..Len(cp.results) |->
                     [url |-> cp.results[k].url, error |-> SerOpt(NoneOpt)]],
     stats |-> [pagesFound |-> cp.stats.pages_found,
                endTime |-> SerOpt(cp.stats.end_time),
                duration |-> SerOpt(cp.stats.duration)],
     timestamp |-> cp.timestamp, base_url |-> cp.base_url,
     config_hash |-> cp.config_hash]

\* serde_json::to_string_pretty(&checkpoint): the JSON document; the visited
\* set becomes an array in the iteration order of the HashSet
Serialize(cp, order) ==
    [visited |-> order,
     results |-> [k \in 1..Len(cp.results) |->
                     [url |-> cp.results[k].url, error |-> SerOpt(cp.results[k].error)]],
     stats |-> [pagesFound |-> cp.stats.pages_found,
                endTime |-> SerOpt(cp.stats.end_time),
                duration |-> SerOpt(cp.stats.duration)],
     timestamp |-> cp.timestamp, base_url |-> cp.base_url,
     config_hash |-> cp.config_hash]

\* serde_json::from_str::<Checkpoint> of a document Serialize wrote
Deserialize(doc) ==
    [visited |-> Range(doc.visited),
     results |-> [k \in 1..Len(doc.results) |->
                     [url |-> doc.results[k].url, error |-> DeOpt(doc.results[k].error)]],
     stats |-> [pages_found |-> doc.stats.pagesFound,
                end_time |-> DeOpt(doc.stats.endTime),
                duration |-> DeOpt(doc.stats.duration)],
     timestamp |-> doc.timestamp, base_url |-> doc.base_url,
     config_hash |-> doc.config_hash]

\* the file checkpoint.json: absent, not a Checkpoint document, or one
FileMissing == [kind |-> "missing"]
FileGarbage == [kind |-> "garbage"]
FileJson(doc) == [kind |-> "json", doc |-> doc]

\* Checkpoint::exists
CheckpointExists(file) == file.kind # "missing"

\* Checkpoint::load: Err when the file cannot be read or does not parse
CheckpointLoad(file) ==
    IF file.kind = "json"
    THEN [ok |-> TRUE, val |-> Deserialize(file.doc)]
    ELSE [ok |-> FALSE]

\* is_valid that compares the base URL only
is_validBaseUrlOnly(cp, base_url, config_hash) == cp.base_url = base_url

\* Checkpoint::is_valid
is_valid(cp, base_url, config_hash) ==
    cp.base_url = base_url /\ cp.config_hash = config_hash

\* CheckpointManager::try_load
try_load(file, mgr) ==
    IF ~CheckpointExists(file) THEN [some |-> FALSE]
    ELSE LET r == CheckpointLoad(file)
         IN  IF r.ok /\ is_valid(r.val, mgr.base_url, mgr.config_hash)
             THEN [some |-> TRUE, val |-> r.val]
             ELSE [some |-> FALSE]

\* CheckpointManager::should_save
should_save(mgr, now) ==
    IF ~mgr.last_save.some THEN TRUE
    ELSE AsU64(now - mgr.last_save.val) >= mgr.save_interval_secs

\* the checkpoints another run may have left in the output directory
OldCheckpoints ==
    {CheckpointNew({A}, <<>>, CHOOSE st \in CkStats : ~st.end_time.some, b, h, 0) :
        b \in CkBaseUrls, h \in CkHashes}

\* CheckpointManager::new for this run, the output directory as found
CkptInit ==
    /\ NoEngine
    /\ FilterIdle /\ RateIdle
    /\ ck_file \in {FileMissing, FileGarbage}
                     \cup {FileJson(Serialize(cp, o)) : cp \in OldCheckpoints, o \in Orders({A})}
    /\ ck_mgr \in [built : {TRUE}, base_url : {S}, config_hash : {1},
                   last_save : {NoneOpt}, save_interval_secs : 0..MaxInterval]
    /\ ck_now \in 0..MaxClock
    /\ ck_ret = [op |-> "none"]
    /\ ck_saved = [some |-> FALSE]

\* time passes
CK_Tick ==
    /\ ck_now < MaxClock
    /\ ck_now' = ck_now + 1
    /\ UNCHANGED <<engine_vars, filter_vars, rate_vars, ck_file, ck_mgr, ck_ret, ck_saved>>

\* the system clock is set back
CK_ClockSetBack ==
    /\ ck_now > 0
    /\ ck_now' = ck_now - 1
    /\ UNCHANGED <<engine_vars, filter_vars, rate_vars, ck_file, ck_mgr, ck_ret, ck_saved>>

\* CheckpointManager::save, the write succeeds
CK_SaveOk ==
    /\ \E v \in CkVisited, pg \in CkPages, st \in CkStats :
          LET cp == CheckpointNew(v, <<pg>>, st, ck_mgr.base_url, ck_mgr.config_hash, ck_now)
          IN  /\ \E o \in Orders(v) : ck_file' = FileJson(Serialize(cp, o))
              /\ ck_saved' = [some |-> TRUE, val |-> cp]
    /\ ck_mgr' = [ck_mgr EXCEPT !.last_save = SomeOpt(ck_now)]
    /\ ck_ret' = [op |-> "save", ok |-> TRUE, now |-> ck_now, last |-> ck_mgr.last_save]
    /\ UNCHANGED <<engine_vars, filter_vars, rate_vars, ck_now>>

\* CheckpointManager::save, create_dir_all or fs::write fails: nothing was
\* written, or the file was truncated and is left incomplete
CK_SaveErr ==
    /\ \/ UNCHANGED <<ck_file, ck_saved>>
       \/ /\ ck_file' = FileGarbage
          /\ ck_saved' = [some |-> FALSE]
    /\ ck_ret' = [op |-> "save", ok |-> FALSE, now |-> ck_now, last |-> ck_mgr.last_save]
    /\ UNCHANGED <<engine_vars, filter_vars, rate_vars, ck_now, ck_mgr>>

\* Checkpoint::save of a checkpoint of another run (other base URL or
\* configuration) into the same directory
CK_SaveOther ==
    /\ \E cp \in OldCheckpoints :
          /\ \E o \in Orders(cp.visited) : ck_file' = FileJson(Serialize(cp, o))
          /\ ck_saved' = [some |-> TRUE, val |-> cp]
    /\ ck_ret' = [op |-> "save_other"]
    /\ UNCHANGED <<engine_vars, filter_vars, rate_vars, ck_now, ck_mgr>>

\* CheckpointManager::should_save
CK_ShouldSave ==
    /\ ck_ret' = [op |-> "should_save", value |-> should_save(ck_mgr, ck_now),
                  now |-> ck_now, last |-> ck_mgr.last_save]
    /\ UNCHANGED <<engine_vars, filter_vars, rate_vars, ck_file, ck_mgr, ck_now, ck_saved>>

\* CheckpointManager::try_load
CK_TryLoad ==
    /\ ck_ret' = [op |-> "try_load", value |-> try_load(ck_file, ck_mgr)]
    /\ UNCHANGED <<engine_vars, filter_vars, rate_vars, ck_file, ck_mgr, ck_now, ck_saved>>

\* Checkpoint::load
CK_Load ==
    /\ ck_ret' = [op |-> "load", res |-> CheckpointLoad(ck_file)]
    /\ UNCHANGED <<engine_vars, filter_vars, rate_vars, ck_file, ck_mgr, ck_now, ck_saved>>

CkptNext ==
    \/ CK_Tick
    \/ CK_ClockSetBack
    \/ CK_SaveOk
    \/ CK_SaveErr
    \/ CK_SaveOther
    \/ CK_ShouldSave
    \/ CK_TryLoad
    \/ CK_Load

CkptSpec == CkptInit /\ [][CkptNext]_vars

(***************************************************************************)
(* RateLimiter on its own (crawler/rate_limiter.rs): a limiter is built    *)
(* for a rate and wait() is called back to back.  Time is counted in       *)
(* units of 10 ms, the sleep of the wait loop; rates are in 1/100 req/s.   *)
(* The limiter is governor's direct limiter with Quota::per_minute(n): a   *)
(* cell is replenished every 60 s / n and up to n cells can be taken in a  *)
(* burst, the limiter starting with the full burst available.              *)
(***************************************************************************)
MaxWaits == 4         \* wait() calls made on one limiter

Minute == 6000        \* 60 s in units of 10 ms

\* config.rate_limit: 0.01, 0.05 and 2 requests per second
Rates == {1, 5, 200}

\* (requests_per_second * 60.0) as u32: the cast truncates
requests_per_minute(rate) == (rate * 60) \div 100

\* Quota::per_minute(n): replenish interval and burst tolerance
ReplenishInterval(rpm) == Minute \div rpm
BurstTolerance(rpm) == ReplenishInterval(rpm) * rpm

Max(a, b) == IF a > b THEN a ELSE b

\* the theoretical arrival time the decision is taken on
Tat(lim, now) == IF lim.tat.some THEN lim.tat.val ELSE now + ReplenishInterval(lim.rpm)

\* limiter.check().is_ok(): the cell conforms
GovernorConforms(lim, now) == now >= Max(0, Tat(lim, now) - BurstTolerance(lim.rpm))

\* the limiter after a conforming cell
GovernorTake(lim, now) ==
    [lim EXCEPT !.tat = SomeOpt(Max(Tat(lim, now), now) + ReplenishInterval(lim.rpm))]

RateInit ==
    /\ NoEngine
    /\ FilterIdle /\ CkptIdle
    /\ rl_rate \in Rates
    /\ rl = [state |-> "unbuilt"]
    /\ rl_now = 0
    /\ rl_done = <<>>

\* RateLimiter::new: NonZeroU32::new(0) is None and the unwrap panics
RL_New ==
    /\ rl.state = "unbuilt"
    /\ rl' = IF requests_per_minute(rl_rate) = 0
             THEN [state |-> "panicked"]
             ELSE [state |-> "ready", rpm |-> requests_per_minute(rl_rate), tat |-> NoneOpt]
    /\ UNCHANGED <<engine_vars, filter_vars, ckpt_vars, rl_rate, rl_now, rl_done>>

\* RateLimiter::wait: check() is Ok and wait returns
RL_WaitOk ==
    /\ rl.state = "ready"
    /\ Len(rl_done) < MaxWaits
    /\ GovernorConforms(rl, rl_now)
    /\ rl' = GovernorTake(rl, rl_now)
    /\ rl_done' = Append(rl_done, rl_now)
    /\ UNCHANGED <<engine_vars, filter_vars, ckpt_vars, rl_rate, rl_now>>

\* RateLimiter::wait: check() is Err; sleep 10 ms and retry
RL_WaitSleep ==
    /\ rl.state = "ready"
    /\ Len(rl_done) < MaxWaits
    /\ ~GovernorConforms(rl, rl_now)
    /\ rl_now' = rl_now + 1
    /\ UNCHANGED <<engine_vars, filter_vars, ckpt_vars, rl_rate, rl, rl_done>>

RateNext == RL_New \/ RL_WaitOk \/ RL_WaitSleep

RateSpec == RateInit /\ [][RateNext]_vars

(***************************************************************************)
(* Vocabulary of the properties.                                           *)
(***************************************************************************)
\* the worker is inside process_job
Processing(w) ==
    wpc[w] \in {"dec", "check", "insert", "found", "domain", "crawl_page", "links",
                "robots", "robots_fetch", "inc", "send", "push", "crawled"}

\* the worker is inside the link loop of process_job
InLinkLoop(w) == wpc[w] \in {"links", "robots", "robots_fetch", "inc", "send"}

\* a link the admission checks of engine.rs:285-301 let through, whatever the
\* robots fetch returns
Admissible(l) ==
    /\ l \notin visited
    /\ should_crawl(url_filter, l)
    /\ (config.respect_robots_txt /\ Domain(l) # NoDomain)
          => one_agent_allowed_by_robots(RobotsBody(Domain(l)), l)

\* the worker holds a job whose processing can still send a child: the job
\* gets (or got) past the visited and domain checks, its depth allows
\* children and a link not yet handled is admissible
CanStillEnqueue(w) ==
    \/ wpc[w] \in {"inc", "send"}
    \/ /\ wpc[w] \in {"dec", "check", "insert", "found", "domain", "crawl_page",
                      "links", "robots", "robots_fetch"}
       /\ wpc[w] \in {"dec", "check"} => wjob[w].url \notin visited
       /\ wpc[w] \in {"dec", "check", "insert", "found", "domain"} =>
             \/ config.allowed_domain = NoDomain
             \/ Domain(wjob[w].url) = NoDomain
             \/ InScope(Domain(wjob[w].url), config.allowed_domain)
       /\ wjob[w].depth < config.max_depth
       /\ \E k \in (IF InLinkLoop(w) THEN wi[w] ELSE 1)..Len(JobLinks(w)) :
             /\ Admissible(JobLinks(w)[k])
             /\ JobLinks(w)[k] # wjob[w].url

\* queue empty and no worker able to refill it
Quiescent == queue = <<>> /\ \A w \in Workers : ~CanStillEnqueue(w)

\* C1: whenever the termination monitor sets shutdown, the crawl is
\* quiescent: the job queue is empty and no worker is processing a job that
\* can still enqueue a child.
C1_ShutdownImpliesQuiescent == [][(~shutdown /\ shutdown') => Quiescent]_vars

\* C2: when crawl() has returned (shutdown set and all workers joined),
\* active_jobs is 0 and the job queue is empty.
C2_ReturnedIdle ==
    (main_pc = "returned" /\ shutdown) => (active_jobs = 0 /\ queue = <<>>)

\* C3: when crawl() has returned (the workers it had, max_workers >= 1, all
\* joined), every URL that was ever enqueued is in the visited set.
C3_EnqueuedVisitedAtReturn ==
    (main_pc = "returned" /\ config.max_workers >= 1) => enqueued \subseteq visited

\* C4: the result list never holds two PageResults with the same URL.
C4_NoDuplicateResults ==
    \A i, j \in 1..Len(results) : results[i].url = results[j].url => i = j

\* C5: the crawl terminates: crawl() returns.  In particular the crawl never
\* reaches a state, short of the return, in which no task can make progress
\* any more (every worker waiting forever to send into the full job queue).
\* This is about the crawl once the workers run; the seeding stage, which can
\* be held up too, is looked at on its own (C39, C40).
C5_Terminates == main_pc # "join" \/ ENABLED <<Next>>_vars

\* C6: active_jobs equals the number of jobs in the system: jobs in the
\* queue, plus jobs being processed by a worker, plus jobs about to be
\* enqueued (counter incremented, send not completed).
C6_ActiveJobsCountsAllJobs ==
    active_jobs = Len(queue)
                  + Cardinality({w \in Workers : Processing(w)})
                  + Cardinality({w \in Workers : wpc[w] = "send"})
                  + (IF main_pc = "seed_send" THEN 1 ELSE 0)

\* C7: every PageResult in the result list has depth <= max_depth.
C7_DepthWithinMax == \A k \in 1..Len(results) : results[k].depth <= config.max_depth

\* C8: a URL is in the visited set before its PageResult is appended: every
\* step that appends a PageResult appends one whose url was already visited.
C8_VisitedBeforeResult ==
    [][\A k \in 1..Len(results') : k > Len(results) => results'[k].url \in visited]_vars

C8_Witness == \E k \in 1..Len(results) : results[k].url = A /\ A \in visited

\* C9: pages_crawled <= pages_found <= |visited|.
C9_StatsOrdered ==
    /\ stats.pages_crawled <= stats.pages_found
    /\ stats.pages_found <= Cardinality(visited)

\* C10: each URL passes the visited gate at most once, so it is counted in
\* pages_found at most once and fetched at most once.
C10_GateOnce == \A u \in URLs : gate[u] <= 1 /\ gets[u] <= 1

\* the URLs that have a PageResult
ResultUrls == {results[k].url : k \in 1..Len(results)}

\* url::Url::host_str as labels: the domain, or the IP address
Host(u) == IF u = I THEN <<"10.0.0.1">> ELSE Domain(u)

\* the robots.txt of the URL's host disallows the URL
RobotsDisallows(u) ==
    Domain(u) # NoDomain /\ ~one_agent_allowed_by_robots(RobotsBody(Domain(u)), u)

\* C11: a GET answered with a status >= 400 is treated like a transport
\* error: no PageResult is recorded for it, so no PageResult in the result
\* list carries a status_code >= 400.
C11_NonSuccessIsError == \A k \in 1..Len(results) : results[k].status_code < 400

\* C12: when the GET of a job fails with a transport error (the worker leaves
\* crawl_page without a result), errors grows by exactly one, the result
\* list and pages_crawled are unchanged, and the worker is back at the top
\* of its loop with the crawl still running as before.
C12_TransportError ==
    [][\A w \in WorkerIds :
          (wpc[w] = "crawl_page" /\ wpc'[w] \notin {"crawl_page", "links", "push"}) =>
             /\ stats'.errors = stats.errors + 1
             /\ results' = results
             /\ stats'.pages_crawled = stats.pages_crawled
             /\ wpc'[w] = "loop"
             /\ shutdown' = shutdown
             /\ main_pc' = main_pc]_vars

C12_Witness == config.max_workers = 1 /\ stats.errors >= 1 /\ wpc[1] = "crawl_page"

\* C13: a discovered link that url_filter.should_crawl rejects is skipped and
\* counted: the step that skips it adds one to excluded_links and leaves
\* pages_found alone.
C13_RejectedCounted ==
    [][\A w \in WorkerIds :
          (/\ wpc[w] = "links"
           /\ wi'[w] # wi[w]
           /\ JobLinks(w)[wi[w]] \notin visited
           /\ ~should_crawl(url_filter, JobLinks(w)[wi[w]])) =>
             /\ stats'.excluded_links = stats.excluded_links + 1
             /\ stats'.pages_found = stats.pages_found]_vars

\* C14: with allowed_domain set, a URL whose host is neither allowed_domain
\* nor a sub-domain of it (an IP address host included) is never fetched and
\* never gets a PageResult.
C14_OutOfScopeNotFetched ==
    config.allowed_domain # NoDomain =>
        \A u \in URLs : ~InScope(Host(u), config.allowed_domain) =>
            (gets[u] = 0 /\ u \notin ResultUrls)

\* C15: with max_depth = 0 only the seed URL is fetched and no worker ever
\* enqueues a child job.
C15_DepthZeroSeedOnly ==
    config.max_depth = 0 =>
        /\ \A u \in URLs : gets[u] > 0 => u = config.base_url
        /\ wsent = {}

\* C16: in every reachable state pages_crawled + errors <= pages_found.
C16_CrawledPlusErrors == stats.pages_crawled + stats.errors <= stats.pages_found

C16_Witness ==
    /\ stats.errors >= 1
    /\ stats.pages_crawled >= 1
    /\ stats.pages_crawled + stats.errors = stats.pages_found

\* C17: crawl() invoked with max_workers = 0 returns an error: it never
\* returns Ok(CrawlResults).
C17_ZeroWorkersIsError == config.max_workers = 0 => main_pc # "returned"

C19_AdmissionIdempotent == \A u \in URLs : Cardinality(robots_log[u]) <= 1

\* C20: with respect_robots_txt enabled, a URL the robots.txt of its host
\* disallows (the robots.txt being served whenever it is asked for) is never
\* fetched and never gets a PageResult.
C20_DisallowedNeverFetched ==
    config.respect_robots_txt =>
        \A u \in URLs : (RobotsDisallows(u) /\ Domain(u) \notin robots_failed) =>
            (gets[u] = 0 /\ u \notin ResultUrls)

\* some pattern of the list matches the URL
AnyMatch(patterns, u) == \E k \in 1..Len(patterns) : ReMatch(patterns[k], u)

\* C22: should_crawl(url) is true if and only if (the include set is empty
\* or url matches at least one include pattern) and url matches no exclude
\* pattern.
C22_ShouldCrawlIff ==
    fl_ret.called =>
        (fl_ret.value <=>
            /\ (fl_filter.include_patterns = <<>>
                   \/ AnyMatch(fl_filter.include_patterns, fl_ret.url))
            /\ ~AnyMatch(fl_filter.exclude_patterns, fl_ret.url))

C22_Witness ==
    /\ fl_ret.called
    /\ fl_filter.include_patterns # <<>>
    /\ AnyMatch(fl_filter.include_patterns, fl_ret.url)
    /\ AnyMatch(fl_filter.exclude_patterns, fl_ret.url)
    /\ ~fl_ret.value

\* C23: a pattern that fails to compile is dropped at construction without
\* an error and the others stay in effect: the filter built from any two
\* pattern lists decides every URL exactly like the filter that holds the
\* compilable patterns of the two lists, in their order.
C23_BrokenPatternsDropped ==
    /\ fl_filter.built =>
          /\ fl_filter.exclude_patterns = SelectSeq(fl_args.exclude, ReCompiles)
          /\ fl_filter.include_patterns = SelectSeq(fl_args.include, ReCompiles)
    /\ fl_ret.called =>
          fl_ret.value =
              should_crawl([exclude_patterns |-> SelectSeq(fl_args.exclude, ReCompiles),
                            include_patterns |-> SelectSeq(fl_args.include, ReCompiles)],
                           fl_ret.url)

C23_Witness ==
    /\ fl_ret.called
    /\ fl_args.include = <<ReBroken>>
    /\ fl_args.exclude = <<ReBroken, ReJpg>>
    /\ fl_ret.url = A
    /\ fl_ret.value

\* C21: when the robots.txt fetch for a host fails, a null entry is cached for
\* the host and the URL is admitted; while the null entry is cached, a URL of
\* that host is admitted without another robots.txt fetch.
C21_RobotsFailureAdmits ==
    [][\A w \in WorkerIds :
          LET link == JobLinks(w)[wi[w]]
          IN  /\ (/\ wpc[w] = "robots_fetch"
                  /\ wpc'[w] # "robots_fetch"
                  /\ robots_cache'[Domain(link)].tag # "some") =>
                     /\ robots_cache'[Domain(link)] = CacheNone
                     /\ wpc'[w] = "inc"
                     /\ wi'[w] = wi[w]
              /\ (/\ wpc[w] = "robots"
                  /\ wpc'[w] # "robots"
                  /\ Domain(link) # NoDomain
                  /\ robots_cache[Domain(link)].tag = "none") =>
                     /\ wpc'[w] = "inc"
                     /\ wi'[w] = wi[w]
                     /\ robots_cache' = robots_cache]_vars

C21_Witness ==
    /\ config.max_workers = 1
    /\ site = "cycle"
    /\ robots_cache[HostH] = CacheNone
    /\ wjob[1].url = S
    /\ wi[1] = 2
    /\ wpc[1] = "inc"

\* the sitemap stage runs: use_sitemap with an allowed domain
SitemapStage == config.use_sitemap /\ config.allowed_domain # NoDomain

\* the URLs one sitemap candidate yields (none when it fails)
CandidateUrls(k) ==
    LET r == fetch_single_sitemap(site, SitemapCandidates[k], SitemapFuel)
    IN  IF r.ok THEN Range(r.urls) ELSE {}

\* C24: if no sitemap candidate yields any URL, the queue is seeded with
\* exactly the job {base_url, depth 0}, active_jobs is 1 when the workers
\* start, and pages_found >= 1 when crawl() has returned.
C24_FallbackToBase ==
    (SitemapStage /\ \A k \in 1..Len(SitemapCandidates) : CandidateUrls(k) = {}) =>
        /\ main_pc = "spawn" =>
              (queue = <<CrawlJob(config.base_url, 0)>> /\ active_jobs = 1)
        /\ main_pc = "returned" => stats.pages_found >= 1

\* C25: fetch_sitemap_urls returns a sequence without duplicates, of length
\* at most max_sitemap_urls, whose elements all come from the first
\* candidate that yields URLs; failing and empty candidates are passed over
\* and the stage goes on (with the base URL when no candidate yields).
C25_SitemapUrls ==
    [][(main_pc = "seed" /\ main_pc' # "seed" /\ SitemapStage) =>
          LET jobs == to_seed'
              yielding == {k \in 1..Len(SitemapCandidates) : CandidateUrls(k) # {}}
          IN  IF yielding = {}
              THEN jobs = <<CrawlJob(config.base_url, 0)>>
              ELSE /\ jobs # <<>>
                   /\ Len(jobs) <= config.max_sitemap_urls
                   /\ \A i, j \in 1..Len(jobs) : jobs[i].url = jobs[j].url => i = j
                   /\ \E k \in yielding :
                         /\ \A j \in yielding : k <= j
                         /\ \A i \in 1..Len(jobs) : jobs[i].url \in CandidateUrls(k)]_vars

C25_Witness ==
    /\ site = "wide"
    /\ main_pc = "seed_inc"
    /\ config.max_sitemap_urls = 2
    /\ Len(to_seed) = 2
    /\ to_seed[1].url = P

\* C26: try_load returns a checkpoint if and only if the checkpoint file
\* exists, parses, and its base_url and config_hash both equal the
\* manager's; the checkpoint returned is the one in the file; in every case
\* the file is left as it was.
C26_TryLoadIff ==
    /\ [](ck_ret.op = "try_load" =>
            /\ ck_ret.value.some <=>
                  /\ ck_file.kind = "json"
                  /\ ck_file.doc.base_url = ck_mgr.base_url
                  /\ ck_file.doc.config_hash = ck_mgr.config_hash
            /\ ck_ret.value.some =>
                  /\ ck_ret.value.val.visited = Range(ck_file.doc.visited)
                  /\ ck_ret.value.val.timestamp = ck_file.doc.timestamp)
    /\ [][ck_ret'.op = "try_load" => ck_file' = ck_file]_vars

C26_Witness ==
    /\ ck_ret.op = "try_load"
    /\ ck_ret.value.some
    /\ ck_saved.some
    /\ ck_saved.val.timestamp > 0

\* C27: checkpoint round trip: Checkpoint::load after a successful save
\* returns a checkpoint equal to the one saved; after several saves it is
\* the last one saved.
C27_RoundTrip ==
    (ck_ret.op = "load" /\ ck_saved.some) =>
        (ck_ret.res.ok /\ ck_ret.res.val = ck_saved.val)

C27_Witness ==
    /\ ck_ret.op = "load"
    /\ ck_saved.some
    /\ ck_saved.val.visited = {A, B}
    /\ ck_file.doc.visited = <<B, A>>
    /\ ck_saved.val.results[1].error.some
    /\ ~ck_saved.val.stats.end_time.some

\* C28: should_save returns true if and only if no save has succeeded yet or
\* at least save_interval_secs have elapsed since the last successful save;
\* a successful save sets last_save and a failed save leaves it unchanged.
C28_ShouldSaveIff ==
    /\ ck_ret.op = "should_save" =>
          (ck_ret.value <=>
              \/ ~ck_ret.last.some
              \/ ck_ret.now - ck_ret.last.val >= ck_mgr.save_interval_secs)
    /\ ck_ret.op = "save" =>
          ck_mgr.last_save = (IF ck_ret.ok THEN SomeOpt(ck_ret.now) ELSE ck_ret.last)

\* C29: rate conformance: on a fresh limiter of rate r the n-th consecutive
\* wait() returns no sooner than (n-1)/r seconds after the first.  In the
\* units of the model (10 ms, 1/100 req/s): (t_n - t_1) * rate >= (n-1) * 10000.
C29_RateConformance ==
    \A n \in 1..Len(rl_done) :
        (rl_done[n] - rl_done[1]) * rl_rate >= (n - 1) * 10000

\* C30: RateLimiter::new builds a limiter for every positive rate_limit: it
\* never panics.
C30_NewNeverPanics == rl.state # "panicked"

\* C34: shutdown is written only by the termination monitor, and only when
\* the sample after the grace interval is zero, the grace interval having
\* been entered on a zero sample; when the sample after the grace interval is
\* not zero, shutdown stays false and the monitor goes back to its periodic
\* sampling; once true, shutdown is never reset.
C34_ShutdownByMonitor ==
    [][/\ shutdown' # shutdown =>
             (mon_pc = "grace" /\ mon_pc' = "done" /\ active_jobs = 0 /\ shutdown')
       /\ (mon_pc # "grace" /\ mon_pc' = "grace") => (mon_pc = "tick" /\ active_jobs = 0)
       /\ (mon_pc = "grace" /\ mon_pc' # "grace" /\ active_jobs # 0) =>
             (mon_pc' = "tick" /\ ~shutdown')
       /\ shutdown => shutdown']_vars

C34_Witness == shutdown /\ mon_pc = "done" /\ active_jobs = 0 /\ stats.pages_crawled >= 1

\* C36 (as stated): active_jobs never goes below zero and equals the number
\* of jobs in the queue plus the number of enqueues in progress (counter
\* incremented by the seeder or a worker, send not yet completed).
C36_ActiveJobsQueuePlusSends ==
    /\ active_jobs >= 0
    /\ active_jobs = Len(queue)
                     + Cardinality({w \in Workers : wpc[w] = "send"})
                     + (IF main_pc = "seed_send" THEN 1 ELSE 0)

\* C36 (amended): active_jobs never goes below zero and equals the number of
\* jobs in the queue, plus the enqueues in progress, plus the jobs a worker
\* has received and not yet subtracted (process_job not yet entered).
C36_ActiveJobsBalance ==
    /\ active_jobs >= 0
    /\ active_jobs = Len(queue)
                     + Cardinality({w \in Workers : wpc[w] = "send"})
                     + (IF main_pc = "seed_send" THEN 1 ELSE 0)
                     + Cardinality({w \in Workers : wpc[w] = "dec"})

C36_Witness == wpc[1] = "dec" /\ wpc[2] = "send" /\ queue # <<>> /\ active_jobs = 3

\* C37: when crawl() has returned, pages_found = pages_crawled + errors +
\* external_links, and the result list holds pages_crawled PageResults.
C37_OutcomesAtReturn ==
    main_pc = "returned" =>
        /\ stats.pages_found = stats.pages_crawled + stats.errors + stats.external_links
        /\ Len(results) = stats.pages_crawled

C37_Witness ==
    /\ main_pc = "returned"
    /\ stats.pages_crawled >= 1
    /\ stats.errors >= 1
    /\ stats.external_links >= 1

\* C32: the PageResult of a page is appended (and pages_crawled incremented)
\* before any child link of the page is admitted and enqueued: a worker that
\* has admitted a link and is about to count and send it has already stored
\* the result of the page the link comes from.
C32_ResultBeforeChildren ==
    \A w \in Workers :
        wpc[w] \in {"inc", "send"} =>
            /\ PageResult(wjob[w]) \in Range(results)
            /\ stats.pages_crawled >= 1

\* a URL the crawl is meant to cover: in scope, accepted by the filter and
\* allowed by the robots.txt of its host
Coverable(u) ==
    /\ config.allowed_domain # NoDomain => InScope(Host(u), config.allowed_domain)
    /\ should_crawl(url_filter, u)
    /\ config.respect_robots_txt => ~RobotsDisallows(u)

RECURSIVE ReachableWithin(_)
\* the URLs reachable from the seed by a path of at most d links through
\* coverable pages
ReachableWithin(d) ==
    IF d = 0 THEN {config.base_url}
    ELSE LET near == ReachableWithin(d - 1)
         IN  near \cup {v \in URLs : Coverable(v) /\
                           \E u \in near : v \in Range(Links(site, u))}

\* C38: with seed-URL seeding and no fetch error, when crawl() has returned
\* every URL reachable from the seed within max_depth links through
\* in-scope, admitted pages has a PageResult, whatever the interleaving.
\* (Stated for the runs with at least one worker that return with nothing
\* left in the queue, so that neither a missing worker nor an early shutdown
\* is what leaves a URL out.)
C38_CoverageAtReturn ==
    (/\ main_pc = "returned"
     /\ config.max_workers >= 1
     /\ queue = <<>>
     /\ ~SitemapStage
     /\ stats.errors = 0) =>
        ReachableWithin(config.max_depth) \subseteq ResultUrls

\* the position in deq of the first job received for the URL
FirstDeq(u) == CHOOSE k \in 1..Len(deq) : deq[k].url = u /\ \A j \in 1..(k - 1) : deq[j].url # u

\* C31: with max_workers = 1 the result list is in the order in which the
\* worker dequeued the jobs: every PageResult is that of a job received, at
\* that job's depth, and the results follow one another as their jobs did;
\* with seed-URL seeding the depths in the result list are non-decreasing.
C31_SingleWorkerOrder ==
    config.max_workers = 1 =>
        /\ \A i \in 1..Len(results) :
              /\ \E k \in 1..Len(deq) : deq[k].url = results[i].url
              /\ deq[FirstDeq(results[i].url)].depth = results[i].depth
        /\ \A i, j \in 1..Len(results) :
              i < j => FirstDeq(results[i].url) < FirstDeq(results[j].url)
        /\ ~SitemapStage =>
              \A i, j \in 1..Len(results) : i < j => results[i].depth <= results[j].depth

C31_Witness ==
    /\ config.max_workers = 1
    /\ ~SitemapStage
    /\ Len(deq) = 4
    /\ Len(results) = 3
    /\ results[1].depth = 0
    /\ results[3].depth = 2

\* C33: once shutdown is set every worker exits at its next loop check: a
\* worker receives at most one further job once shutdown is true, and no
\* worker stays alive forever: while a worker has not ended, some worker
\* can still take a step.
C33_WorkersExitAfterShutdown ==
    /\ \A w \in WorkerIds : late_recv[w] <= 1
    /\ shutdown =>
          \/ \A w \in Workers : wpc[w] = "done"
          \/ ENABLED <<\E w \in WorkerIds : Worker(w)>>_vars

\* C35: when the send of a child fails because the channel is closed, the
\* worker decrements active_jobs, so that the failed attempt leaves the
\* counter as it was before the attempt, and the child is abandoned: it is
\* not enqueued and not added to visited.
C35_SendFailureRestores ==
    /\ [](rx_closed =>
             /\ queue = <<>>
             /\ visited \subseteq Range([k \in 1..Len(deq) |-> deq[k].url])
             /\ wpc[1] \notin {"dec", "send"} => active_jobs = 0)
    /\ [][(rx_closed /\ wpc[1] = "send" /\ wpc'[1] # "send") =>
             /\ active_jobs' = active_jobs - 1
             /\ queue' = queue
             /\ visited' = visited
             /\ wpc'[1] = "push"]_vars

C35_Witness ==
    /\ rx_closed
    /\ wpc[1] = "push"
    /\ wi[1] \in 1..Len(JobLinks(1))
    /\ active_jobs = 0

\* C39: fetch_sitemap_urls terminates for every finite set of sitemap
\* documents, sitemap indexes that list themselves included: when the
\* sitemap stage runs, the call has a value to return.
C39_SitemapFetchTerminates ==
    (SitemapStage /\ main_pc = "seed") =>
        fetch_sitemap_urls(site, config.max_sitemap_urls) # {}

\* C40: the seeding stage always completes and the workers are then spawned:
\* the seeder never blocks forever on a send, whatever the number of sitemap
\* URLs relative to the capacity of the job queue.  No worker runs before
\* the stage is over, so nothing is received meanwhile: the channel must
\* have room whenever the seeder sends.
C40_SeedingCompletes == main_pc = "seed_send" => Len(queue) < QueueCap

====
